---------------------------- MODULE Spec2Model ----------------------------
(* A model of stpp (src/stpp.cpp): a streaming, directive driven text      *)
(* preprocessor.  The input stream is a sequence of one-character strings, *)
(* the call stack of handle_if activations is an explicit sequence of      *)
(* frames, and the scan loops of consume / consume_next take one step per  *)
(* character or directive.                                                 *)
EXTENDS Integers, Sequences, FiniteSets, TLC

VARIABLES input, in, pos, out, ctx, stack, result, cerr, options

vars == <<input, in, pos, out, ctx, stack, result, cerr, options>>

-----------------------------------------------------------------------------
(* Bounds of the explored inputs                                           *)

MaxText == 3

MaxBranch == 2

MaxNot == 3

MaxBody == 2

MaxOps == 3

MaxNest == 2

MaxGap == 2

-----------------------------------------------------------------------------
(* Characters and the directive scanner                                    *)

PP_START == "#"

MAX_BUF_SIZE == 16

\* std::isspace in the "C" locale (the vertical tab has no TLA+ escape)
IsSpace(c) == c \in {" ", "\t", "\n", "\r", "\f"}

Classify(buffer) ==
  IF buffer = <<"i", "f">> THEN "If"
  ELSE IF buffer = <<"e", "l", "i", "f">> THEN "Elif"
  ELSE IF buffer = <<"e", "l", "s", "e">> THEN "Else"
  ELSE IF buffer = <<"e", "n", "d", "i", "f">> THEN "Endif"
  ELSE IF buffer = <<"d", "e", "f", "i", "n", "e">> THEN "Define"
  ELSE IF buffer = <<"u", "n", "d", "e", "f">> THEN "Undef"
  ELSE "Unknown"

\* a variant that reads a word longer than the buffer to its end and drops
\* the characters that do not fit
RECURSIVE ReadWord_discardTail(_, _, _, _, _)
ReadWord_discardTail(s, p, buffer, started, cap) ==
  IF p >= Len(s) THEN [word |-> buffer, pos |-> p]
  ELSE LET c == s[p + 1] IN
    IF c = "\n" THEN [word |-> buffer, pos |-> p + 1]
    ELSE IF ~IsSpace(c) THEN
      ReadWord_discardTail(s, p + 1,
                           IF Len(buffer) >= cap THEN buffer
                           ELSE Append(buffer, c), TRUE, cap)
    ELSE IF started THEN [word |-> buffer, pos |-> p + 1]
    ELSE ReadWord_discardTail(s, p + 1, buffer, started, cap)

\* a variant that leaves the character that ends the word on the stream
RECURSIVE ReadWord_keepTerminator(_, _, _, _, _)
ReadWord_keepTerminator(s, p, buffer, started, cap) ==
  IF Len(buffer) >= cap \/ p >= Len(s) THEN [word |-> buffer, pos |-> p]
  ELSE LET c == s[p + 1] IN
    IF c = "\n" THEN [word |-> buffer, pos |-> p]
    ELSE IF ~IsSpace(c) THEN
      ReadWord_keepTerminator(s, p + 1, Append(buffer, c), TRUE, cap)
    ELSE IF started THEN [word |-> buffer, pos |-> p]
    ELSE ReadWord_keepTerminator(s, p + 1, buffer, started, cap)

RECURSIVE ReadWord(_, _, _, _, _)
ReadWord(s, p, buffer, started, cap) ==
  IF Len(buffer) >= cap \/ p >= Len(s) THEN [word |-> buffer, pos |-> p]
  ELSE LET c == s[p + 1] IN
    IF c = "\n" THEN [word |-> buffer, pos |-> p + 1]
    ELSE IF ~IsSpace(c) THEN ReadWord(s, p + 1, Append(buffer, c), TRUE, cap)
    ELSE IF started THEN [word |-> buffer, pos |-> p + 1]
    ELSE ReadWord(s, p + 1, buffer, started, cap)

extract_operation(s, p) ==
  LET r == ReadWord(s, p, <<>>, FALSE, MAX_BUF_SIZE)
  IN [op |-> Classify(r.word), name |-> r.word, pos |-> r.pos]

get_tag(s, p) ==
  ReadWord(s, p, <<>>, FALSE, Len(s) + 1)

-----------------------------------------------------------------------------
(* Expression lexer                                                        *)

Tok(type) == [Type |-> type, Tag |-> <<>>]

checkAddTag(toks, tag) ==
  IF tag # <<>> THEN Append(toks, [Type |-> "Tag", Tag |-> tag]) ELSE toks

RECURSIVE LexLoop(_, _, _, _, _)
LexLoop(s, p, tag, toks, d) ==
  IF p >= Len(s) THEN [toks |-> checkAddTag(toks, tag), pos |-> p, d |-> d]
  ELSE LET c == s[p + 1]
           flushed == checkAddTag(toks, tag)
       IN
    IF c = "\n" THEN [toks |-> flushed, pos |-> p + 1, d |-> d]
    ELSE IF IsSpace(c) THEN LexLoop(s, p + 1, <<>>, flushed, d)
    ELSE IF c = "!" THEN LexLoop(s, p + 1, <<>>, Append(flushed, Tok("Not")), d)
    ELSE IF c = "^" THEN LexLoop(s, p + 1, <<>>, Append(flushed, Tok("Xor")), d)
    ELSE IF c = "(" THEN
      LexLoop(s, p + 1, <<>>, Append(flushed, Tok("ParantheseOpen")), d)
    ELSE IF c = ")" THEN
      LexLoop(s, p + 1, <<>>, Append(flushed, Tok("ParantheseClose")), d)
    ELSE IF c = "&" THEN
      \* the second get fails at end of stream and leaves c = '&'
      IF p + 1 >= Len(s) THEN
        LexLoop(s, p + 1, <<>>, Append(flushed, Tok("And")), d)
      ELSE IF s[p + 2] = "&" THEN
        LexLoop(s, p + 2, <<>>, Append(flushed, Tok("And")), d)
      ELSE
        LexLoop(s, p + 1, <<>>, Append(flushed, Tok("And")), d \cup {"AndSpelling"})
    ELSE IF c = "|" THEN
      IF p + 1 >= Len(s) THEN
        LexLoop(s, p + 1, <<>>, Append(flushed, Tok("Or")), d)
      ELSE IF s[p + 2] = "|" THEN
        LexLoop(s, p + 2, <<>>, Append(flushed, Tok("Or")), d)
      ELSE
        LexLoop(s, p + 1, <<>>, Append(flushed, Tok("Or")), d \cup {"OrSpelling"})
    ELSE LexLoop(s, p + 1, Append(tag, c), toks, d)

ExprLexer(s, p) == LexLoop(s, p, <<>>, <<>>, {})

current(toks, p) ==
  IF p >= Len(toks) THEN Tok("EOS") ELSE toks[p + 1]

-----------------------------------------------------------------------------
(* Expression parser / evaluator: toks is the token vector, p is mPosition,*)
(* T is ctx.Tags.  Each operator returns the value, the new mPosition and  *)
(* the diagnostics written.                                                *)

RECURSIVE binary_condition(_, _, _)

primary_condition(toks, p, T) ==
  IF current(toks, p).Type = "ParantheseOpen" THEN
    LET a == binary_condition(toks, p + 1, T)
        good == current(toks, a.p).Type = "ParantheseClose"
    IN [v |-> IF good THEN a.v ELSE FALSE,
        p |-> a.p + 1,
        d |-> a.d \cup (IF good THEN {} ELSE {"Expected"})]
  ELSE
    LET tag == current(toks, p)
        good == tag.Type = "Tag"
    IN [v |-> good /\ tag.Tag \in T,
        p |-> p + 1,
        d |-> IF good THEN {} ELSE {"Expected"}]

RECURSIVE unary_condition_noNegation(_, _, _)
unary_condition_noNegation(toks, p, T) ==
  IF current(toks, p).Type = "Not" THEN
    unary_condition_noNegation(toks, p + 1, T)
  ELSE primary_condition(toks, p, T)

RECURSIVE unary_condition(_, _, _)
unary_condition(toks, p, T) ==
  IF current(toks, p).Type = "Not" THEN
    LET u == unary_condition(toks, p + 1, T)
    IN [v |-> ~u.v, p |-> u.p, d |-> u.d]
  ELSE primary_condition(toks, p, T)

RECURSIVE binary_condition_andAsOr(_, _, _)
binary_condition_andAsOr(toks, p, T) ==
  LET a == unary_condition(toks, p, T)
      t == current(toks, a.p).Type
  IN IF t = "EOS" \/ t = "ParantheseClose" THEN
       [v |-> a.v, p |-> a.p + 1, d |-> a.d]
     ELSE IF t = "And" \/ t = "Or" THEN
       LET b == binary_condition_andAsOr(toks, a.p + 1, T)
       IN [v |-> a.v \/ b.v, p |-> b.p, d |-> a.d \cup b.d]
     ELSE IF t = "Xor" THEN
       LET b == binary_condition_andAsOr(toks, a.p + 1, T)
       IN [v |-> a.v # b.v, p |-> b.p, d |-> a.d \cup b.d]
     ELSE [v |-> FALSE, p |-> a.p, d |-> a.d]

RECURSIVE binary_condition_leftFold(_, _, _)
binary_condition_leftFold(toks, p, T) ==
  LET a == unary_condition(toks, p, T)
      t == current(toks, a.p).Type
      b == unary_condition(toks, a.p + 1, T)
      ab == IF t = "And" THEN a.v /\ b.v
            ELSE IF t = "Or" THEN a.v \/ b.v ELSE a.v # b.v
      t2 == current(toks, b.p).Type
      c == binary_condition_leftFold(toks, b.p + 1, T)
  IN IF t = "EOS" \/ t = "ParantheseClose" THEN
       [v |-> a.v, p |-> a.p + 1, d |-> a.d]
     ELSE IF t \in {"And", "Or", "Xor"} THEN
       IF t2 = "And" THEN [v |-> ab /\ c.v, p |-> c.p, d |-> a.d \cup b.d \cup c.d]
       ELSE IF t2 = "Or" THEN [v |-> ab \/ c.v, p |-> c.p, d |-> a.d \cup b.d \cup c.d]
       ELSE IF t2 = "Xor" THEN [v |-> ab # c.v, p |-> c.p, d |-> a.d \cup b.d \cup c.d]
       ELSE [v |-> ab, p |-> b.p + 1, d |-> a.d \cup b.d]
     ELSE [v |-> FALSE, p |-> a.p, d |-> a.d]

binary_condition(toks, p, T) ==
  LET a == unary_condition(toks, p, T)
      t == current(toks, a.p).Type
  IN IF t = "EOS" \/ t = "ParantheseClose" THEN
       [v |-> a.v, p |-> a.p + 1, d |-> a.d]
     ELSE IF t = "And" THEN
       LET b == binary_condition(toks, a.p + 1, T)
       IN [v |-> a.v /\ b.v, p |-> b.p, d |-> a.d \cup b.d]
     ELSE IF t = "Or" THEN
       LET b == binary_condition(toks, a.p + 1, T)
       IN [v |-> a.v \/ b.v, p |-> b.p, d |-> a.d \cup b.d]
     ELSE IF t = "Xor" THEN
       LET b == binary_condition(toks, a.p + 1, T)
       IN [v |-> a.v # b.v, p |-> b.p, d |-> a.d \cup b.d]
     ELSE [v |-> FALSE, p |-> a.p, d |-> a.d]

handle_condition(s, p, T) ==
  LET lexer == ExprLexer(s, p)
  IN IF current(lexer.toks, 0).Type = "EOS" THEN
       [v |-> FALSE, pos |-> lexer.pos, d |-> lexer.d \cup {"NoCondition"}]
     ELSE
       LET b == binary_condition(lexer.toks, 0, T)
       IN [v |-> b.v, pos |-> lexer.pos, d |-> lexer.d \cup b.d]

-----------------------------------------------------------------------------
(* The conditional block interpreter                                       *)

Frame(ignore, condition) ==
  [ignore |-> ignore, condition |-> condition,
   once_true |-> FALSE, current |-> "If"]

BodyIgnore_noCondition(f) == f.ignore \/ f.once_true

BodyIgnore_noInherited(f) == f.once_true \/ ~f.condition

BodyIgnore(f) == f.ignore \/ f.once_true \/ ~f.condition

\* the ignore flag of the scan loop that is running
Ignore == IF stack = <<>> THEN FALSE ELSE BodyIgnore(stack[Len(stack)])

DefineActive_always(ignore) == TRUE

\* `!ignore && handle_define(...)`: the handler runs only when not ignoring
DefineActive(ignore) == ~ignore

ApplyDefine_undefKeeps(tags, op, tag) ==
  IF op = "Define" THEN tags \cup {tag} ELSE tags

\* ctx.Tags.insert(tag) in handle_define, ctx.Tags.erase(tag) in handle_undef
ApplyDefine(tags, op, tag) ==
  IF op = "Define" THEN tags \cup {tag} ELSE tags \ {tag}

Emit_always(o, text, ignore) == o \o text

Emit_markerOnly(o, text, ignore) == IF ~ignore THEN o \o <<text[1]>> ELSE o

Emit_inverted(o, text, ignore) == IF ignore THEN o \o text ELSE o

Emit(o, text, ignore) == IF ~ignore THEN o \o text ELSE o

handle_if_iter_forgetOnce(f, cur, s, p, T) ==
  LET hc == handle_condition(s, p, T)
  IN IF f.once_true THEN
       [frame |-> [f EXCEPT !.condition = FALSE, !.current = cur],
        pos |-> p, d |-> {}]
     ELSE IF cur = "Elif" THEN
       [frame |-> [f EXCEPT !.condition = hc.v, !.current = cur],
        pos |-> hc.pos, d |-> hc.d]
     ELSE
       [frame |-> [f EXCEPT !.condition = TRUE, !.current = cur],
        pos |-> p, d |-> {}]

\* ctx.Depth += 1 on entering handle_if
EnterDepth(d) == d + 1

\* a variant that leaves the counter as it is when a block is left
LeaveDepth_kept(d) == d

\* ctx.Depth -= 1 before handle_if returns
LeaveDepth(d) == d - 1

\* a variant that lexes and evaluates the guard of every elif
handle_if_iter_evalSkipped(f, cur, s, p, T) ==
  LET once == f.once_true \/ f.condition
      hc == handle_condition(s, p, T)
  IN IF cur = "Elif" THEN
       [frame |-> [f EXCEPT !.once_true = once,
                            !.condition = ~once /\ hc.v, !.current = cur],
        pos |-> hc.pos, d |-> hc.d]
     ELSE
       [frame |-> [f EXCEPT !.once_true = once, !.condition = ~once,
                            !.current = cur],
        pos |-> p, d |-> {}]

\* one pass through the body of the while loop of handle_if, after
\* consume_next returned true with `cur` in current and cur # Endif
handle_if_iter(f, cur, s, p, T) ==
  LET once == f.once_true \/ f.condition
      hc == handle_condition(s, p, T)
  IN IF once THEN
       [frame |-> [f EXCEPT !.once_true = TRUE, !.condition = FALSE,
                            !.current = cur],
        pos |-> p, d |-> {}]
     ELSE IF cur = "Elif" THEN
       [frame |-> [f EXCEPT !.condition = hc.v, !.current = cur],
        pos |-> hc.pos, d |-> hc.d]
     ELSE
       [frame |-> [f EXCEPT !.condition = TRUE, !.current = cur],
        pos |-> p, d |-> {}]

Pop(st) == SubSeq(st, 1, Len(st) - 1)

ReplaceTop(st, f) == [st EXCEPT ![Len(st)] = f]

AtDirective == result = "running" /\ pos < Len(in) /\ in[pos + 1] = PP_START

Op == extract_operation(in, pos + 1)

-----------------------------------------------------------------------------
(* Inputs.  A scenario describes one input file; Render gives its          *)
(* characters.  Every scenario record has the same fields:                 *)
(*   kind  the family, text a literal text, g0 the tag of the `if` guard,  *)
(*   br    the later branches of a chain ("else" or the tag of an elif)    *)
(*         or the operators of a guard, n and m numbers whose meaning      *)
(*         depends on the family, b1 and b2 two literal bodies.            *)

Scenario(kind, text, g0, br, n, m, b1, b2) ==
  [kind |-> kind, text |-> text, g0 |-> g0, br |-> br, n |-> n, m |-> m,
   b1 |-> b1, b2 |-> b2]

SeqsUpTo(S, n) == UNION {[1..k -> S] : k \in 0..n}

NL == <<"\n">>

W_if == <<"i", "f">>

W_elif == <<"e", "l", "i", "f">>

W_else == <<"e", "l", "s", "e">>

W_endif == <<"e", "n", "d", "i", "f">>

W_define == <<"d", "e", "f", "i", "n", "e">>

W_undef == <<"u", "n", "d", "e", "f">>

\* a directive line: marker, word, one blank, the argument, newline
DirLine(word, arg) == <<PP_START>> \o word \o <<" ">> \o arg \o NL

\* a directive without argument, ended by a newline
DirWord(word) == <<PP_START>> \o word \o NL

Digits == <<"0", "1", "2", "3", "4", "5", "6", "7">>

Letters == <<"P", "Q", "R", "S", "T", "U", "V", "W">>

BranchLine(b) == IF b = "else" THEN DirWord(W_else) ELSE DirLine(W_elif, <<b>>)

\* the chain `#if g0` / br[1] / ... / br[k]; body i (counted from 0) is
\* extra[i + 1] followed by the character marks[i + 1]; closed by `#endif`
\* when closed is TRUE
RECURSIVE RenderBranches(_, _, _, _)
RenderBranches(br, i, marks, extra) ==
  IF i > Len(br) THEN <<>>
  ELSE BranchLine(br[i]) \o extra[i + 1] \o <<marks[i + 1]>>
       \o RenderBranches(br, i + 1, marks, extra)

RenderChain(g0, br, marks, extra, closed) ==
  DirLine(W_if, <<g0>>) \o extra[1] \o <<marks[1]>>
  \o RenderBranches(br, 1, marks, extra)
  \o (IF closed THEN DirWord(W_endif) ELSE <<>>)

NoExtra == [i \in 1..8 |-> <<>>]

ExtraAt(j, block) == [i \in 1..8 |-> IF i = j + 1 THEN block ELSE <<>>]

ExtraAll(block) == [i \in 1..8 |-> block]

\* the index of the body a chain selects: the first branch whose guard
\* holds in T, an `else` standing for a guard that always holds; -1 if none
BranchHolds(g0, br, i, T) ==
  IF i = 0 THEN <<g0>> \in T
  ELSE br[i] = "else" \/ <<br[i]>> \in T

Selected(g0, br, T) ==
  LET hold == {i \in 0..Len(br) : BranchHolds(g0, br, i, T)}
  IN IF hold = {} THEN 0 - 1
     ELSE CHOOSE i \in hold : \A j \in hold : i <= j

SelectedBody(g0, br, T, marks) ==
  IF Selected(g0, br, T) < 0 THEN <<>>
  ELSE <<marks[Selected(g0, br, T) + 1]>>

\* blocks placed inside a body of an enclosing chain; the first four are
\* the chains of NestedShapes with literal bodies
NestedShapes ==
  << <<"a", <<>> >>,
     <<"b", <<"else">> >>,
     <<"b", <<"a", "else">> >>,
     <<"a", <<"else", "b">> >> >>

NestedBlocks ==
  << RenderChain(NestedShapes[1][1], NestedShapes[1][2], Letters, NoExtra, TRUE),
     RenderChain(NestedShapes[2][1], NestedShapes[2][2], Letters, NoExtra, TRUE),
     RenderChain(NestedShapes[3][1], NestedShapes[3][2], Letters, NoExtra, TRUE),
     RenderChain(NestedShapes[4][1], NestedShapes[4][2], Letters, NoExtra, TRUE),
     RenderChain("a", <<"else">>, Letters,
                 ExtraAll(RenderChain("b", <<"else">>, Digits, NoExtra, TRUE)),
                 TRUE),
     RenderChain("a", <<"else">>, Letters,
                 ExtraAll(DirLine(W_define, <<"c">>)), TRUE) >>

DefLine(n) ==
  IF n = 0 THEN DirLine(W_define, <<"c">>) ELSE DirLine(W_undef, <<"c">>)

OpChars(o) ==
  IF o = "&&" THEN <<"&", "&">>
  ELSE IF o = "||" THEN <<"|", "|">>
  ELSE <<"^">>

Nots(k) == [i \in 1..k |-> "!"]

\* parenthesized guards; the first three are balanced
ParenForms ==
  << <<"(", "a", ")">>,
     <<"!", "(", "a", ")">>,
     <<"(", "a", ")", " ", "&", "&", " ", "b">>,
     <<"(", "a", " ", "|", "|", " ", "b", ")">>,
     <<"(", "(", "a", ")", ")">>,
     <<"(", "a">>,
     <<"(", "a", ")", ")">> >>

GuardBlock(guard) == DirLine(W_if, guard) \o <<"Y">> \o DirWord(W_endif)

\* inputs given character by character
RawInputs ==
  { <<"x", "#", " ", "f", "o", "o", " ", "y">>,
    <<"#", "e", "l", "s", "e", "\n", "x">>,
    <<"#", "f", "o", "o">> }

TagNames == {<<"a">>, <<"b">>, <<"c">>}

PlainChars == {"x", "y", " ", "\n"}

GuardTags == {"a", "b"}

Branches == GuardTags \cup {"else"}

Operators == {"&&", "||", "^"}

Chains == {<<g, br>> : g \in GuardTags, br \in SeqsUpTo(Branches, MaxBranch)}

TextScenarios ==
  {Scenario("text", t, "a", <<>>, 0, 0, <<>>, <<>>) :
     t \in SeqsUpTo(PlainChars, MaxText)}

RawScenarios ==
  {Scenario("raw", t, "a", <<>>, 0, 0, <<>>, <<>>) : t \in RawInputs}

\* text `#if g0` b1 [`#else` b2] `#endif` text; n = 1 when the else is there
IfElseScenarios ==
  {Scenario("ifelse", t, g, <<>>, n, 0, b1, b2) :
     t \in {<<>>, <<"x">>}, g \in GuardTags, n \in {0, 1},
     b1 \in SeqsUpTo({"1", "\n"}, MaxBody),
     b2 \in SeqsUpTo({"2", " "}, MaxBody)}

ChainScenarios ==
  {Scenario("chain", <<>>, c[1], c[2], 0, 0, <<>>, <<>>) : c \in Chains}

UnclosedScenarios ==
  {Scenario("unclosed", <<>>, c[1], c[2], 0, 0, <<>>, <<>>) : c \in Chains}

\* a chain whose every body starts with `#define c` (n = 0) or `#undef c`
DefineScenarios ==
  {Scenario("define", <<>>, c[1], c[2], n, 0, <<>>, <<>>) :
     c \in Chains, n \in {0, 1}}

\* a chain with block NestedBlocks[m] at the start of body n
NestedScenarios ==
  {Scenario("nested", <<>>, c[1], c[2], n, m, <<>>, <<>>) :
     c \in Chains, n \in 0..MaxBranch, m \in 1..Len(NestedBlocks)}

\* `#if a o1 b o2 c` with br = <<o1, o2>>
Guard3Scenarios ==
  {Scenario("guard3", <<>>, "a", <<o1, o2>>, 0, 0, <<>>, <<>>) :
     o1 \in Operators, o2 \in Operators}

\* `#if` followed by n times '!' and the tag a
NotScenarios ==
  {Scenario("nots", <<>>, "a", <<>>, n, 0, <<>>, <<>>) : n \in 0..MaxNot}

ParenScenarios ==
  {Scenario("paren", <<>>, "a", <<>>, n, 0, <<>>, <<>>) :
     n \in 1..Len(ParenForms)}

\* after each of the directives br[i] ("D" for `#define c`, "U" for
\* `#undef c`) the block `#if c` <digit i> `#endif`; n = 1 puts the whole
\* sequence inside the body of `#if a`
DefSeqScenarios ==
  {Scenario("defseq", <<>>, "c", ops, n, 0, <<>>, <<>>) :
     ops \in SeqsUpTo({"D", "U"}, MaxOps), n \in {0, 1}}

RECURSIVE RenderDefSeq(_, _)
RenderDefSeq(ops, i) ==
  IF i > Len(ops) THEN <<>>
  ELSE DefLine(IF ops[i] = "D" THEN 0 ELSE 1)
       \o DirLine(W_if, <<"c">>) \o <<Digits[i + 1]>> \o DirWord(W_endif)
       \o RenderDefSeq(ops, i + 1)

DefSeqText(s) ==
  DirLine(W_if, <<"c">>) \o <<Digits[1]>> \o DirWord(W_endif)
  \o RenderDefSeq(s.br, 1)

\* define / undef directives without a tag: keyword, then only whitespace
\* up to the line end, or the line end at once, or the end of the stream
NoTagForms ==
  << <<PP_START>> \o W_define \o <<" ", "\n">>,
     <<PP_START>> \o W_undef \o <<" ", "\n">>,
     <<PP_START>> \o W_define \o <<" ", " ", "\t", "\n">>,
     <<PP_START>> \o W_define \o <<"\n">>,
     <<PP_START>> \o W_undef \o <<"\n">>,
     <<PP_START>> \o W_undef >>

Repeat(k, text) == IF k = 0 THEN <<>> ELSE
  [i \in 1..(k * Len(text)) |-> text[((i - 1) % Len(text)) + 1]]

\* NoTagForms[m] inside n nested bodies of `#if a`; the last form ends the
\* stream
NoTagScenarios ==
  {Scenario("notag", <<>>, "a", <<>>, n, m, <<>>, <<>>) :
     n \in 0..MaxNest, m \in 1..Len(NoTagForms)}

NoTagText(s) ==
  <<"s">> \o Repeat(s.n, DirLine(W_if, <<"a">>) \o <<"0">>)
  \o NoTagForms[s.m]
  \o (IF s.m = Len(NoTagForms) THEN <<>>
      ELSE <<"t">> \o Repeat(s.n, DirWord(W_endif)) \o <<"e">>)

\* malformed guards: empty, unmatched parenthesis, two adjacent tags,
\* dangling operators
BadGuards ==
  << <<>>,
     <<"(", "a">>,
     <<"a", " ", "b">>,
     <<"a", " ", "|", "|">>,
     <<"&", "&", " ", "a">>,
     <<"a", ")">>  >>

\* m = 0: `#if` BadGuards[n] / `#else`; m = 1: `#if b` / `#elif`
\* BadGuards[n] / `#else`
BadGuardScenarios ==
  {Scenario("badguard", <<>>, "b", <<>>, n, m, <<>>, <<>>) :
     n \in 1..Len(BadGuards), m \in {0, 1}}

BadGuardText(s) ==
  <<"s">>
  \o (IF s.m = 0 THEN DirLine(W_if, BadGuards[s.n]) \o <<"0">>
      ELSE DirLine(W_if, <<"b">>) \o <<"0">>
           \o DirLine(W_elif, BadGuards[s.n]) \o <<"1">>)
  \o DirWord(W_else) \o <<"2">> \o DirWord(W_endif) \o <<"e">>

Alphabet ==
  << "a", "b", "c", "d", "e", "f", "g", "h", "i", "j", "k", "l", "m", "n",
     "o", "p", "q", "r", "u", "v", "w" >>

Terminators == << <<" ">>, <<"\n">>, <<"\t">> >>

\* b1 `#` n blanks, the word text, terminator m (0: the stream ends), b2
UnknownScenarios ==
  {Scenario("unknown", SubSeq(Alphabet, 1, k), "a", <<>>, n, m, b1,
            IF m = 0 THEN <<>> ELSE b2) :
     k \in {1, 3, MAX_BUF_SIZE - 1, MAX_BUF_SIZE, MAX_BUF_SIZE + 1,
            MAX_BUF_SIZE + 3},
     n \in 0..MaxGap, m \in 0..Len(Terminators),
     b1 \in {<<>>, <<"x">>}, b2 \in {<<>>, <<"y">>, <<" ", "y">>}}

Terminator(m) == IF m = 0 THEN <<>> ELSE Terminators[m]

UnknownText(s) ==
  s.b1 \o <<PP_START>> \o Repeat(s.n, <<" ">>) \o s.text
  \o Terminator(s.m) \o s.b2

\* inside the body of `#if a`: the directive ArgWords[n] (if, define,
\* undef) with the argument ArgTexts[m], then X; the nested `if` has its
\* own `#endif`
ArgWords == <<W_if, W_define, W_undef>>

ArgTexts == << <<PP_START>> \o W_endif, <<"b">> >>

ArgScenarios ==
  {Scenario("arg", <<>>, "a", <<>>, n, m, <<>>, <<>>) :
     n \in 1..Len(ArgWords), m \in 1..Len(ArgTexts)}

ArgText(s) ==
  <<"s">> \o DirLine(W_if, <<"a">>) \o <<"0">>
  \o DirLine(ArgWords[s.n], ArgTexts[s.m]) \o <<"X">>
  \o (IF s.n = 1 THEN DirWord(W_endif) ELSE <<>>)
  \o DirWord(W_endif) \o <<"e">>

\* guards of an elif that follows a selected branch
SkipGuards ==
  << <<"b">>,
     <<"(", " ", "(">>,
     <<>>,
     <<"&", " ", "b">>,
     <<PP_START, "f", "o", "o">>,
     <<"b", " ", PP_START>> \o W_endif >>

\* `#if a` 0 `#elif` SkipGuards[n] 1 `#endif`
SkipElifScenarios ==
  {Scenario("skipelif", <<>>, "a", <<>>, n, 0, <<>>, <<>>) :
     n \in 1..Len(SkipGuards)}

SkipElifText(s) ==
  <<"s">> \o DirLine(W_if, <<"a">>) \o <<"0">>
  \o DirLine(W_elif, SkipGuards[s.n]) \o <<"1">>
  \o DirWord(W_endif) \o <<"e">>

\* b1, then n closed blocks `#if a` `#endif`, then at top level `#` and the
\* keyword text (elif, else, endif) with terminator m, then b2
StrayScenarios ==
  {Scenario("stray", w, "a", <<>>, n, m, b1, IF m = 0 THEN <<>> ELSE b2) :
     w \in {W_elif, W_else, W_endif}, n \in 0..MaxNest,
     m \in 0..Len(Terminators),
     b1 \in {<<>>, <<"x">>}, b2 \in {<<>>, <<"y">>, <<"b", "\n", "y">>}}

StrayText(s) ==
  s.b1 \o Repeat(s.n, DirLine(W_if, <<"a">>) \o DirWord(W_endif))
  \o <<PP_START>> \o s.text \o Terminator(s.m) \o s.b2

Guard3Text(s) ==
  <<"a", " ">> \o OpChars(s.br[1]) \o <<" ", "b", " ">> \o OpChars(s.br[2])
  \o <<" ", "c">>

Render(s) ==
  IF s.kind \in {"text", "raw"} THEN s.text
  ELSE IF s.kind = "ifelse" THEN
    s.text \o DirLine(W_if, <<s.g0>>) \o s.b1
    \o (IF s.n = 1 THEN DirWord(W_else) \o s.b2 ELSE <<>>)
    \o DirWord(W_endif) \o s.text
  ELSE IF s.kind = "chain" THEN
    <<"s">> \o RenderChain(s.g0, s.br, Digits, NoExtra, TRUE) \o <<"e">>
  ELSE IF s.kind = "unclosed" THEN
    <<"s">> \o RenderChain(s.g0, s.br, Digits, NoExtra, FALSE)
  ELSE IF s.kind = "define" THEN
    <<"s">> \o RenderChain(s.g0, s.br, Digits, ExtraAll(DefLine(s.n)), TRUE)
    \o <<"e">>
  ELSE IF s.kind = "nested" THEN
    <<"s">>
    \o RenderChain(s.g0, s.br, Digits, ExtraAt(s.n, NestedBlocks[s.m]), TRUE)
    \o <<"e">>
  ELSE IF s.kind = "guard3" THEN GuardBlock(Guard3Text(s))
  ELSE IF s.kind = "nots" THEN GuardBlock(Nots(s.n) \o <<s.g0>>)
  ELSE IF s.kind = "paren" THEN GuardBlock(ParenForms[s.n])
  ELSE IF s.kind = "skipelif" THEN SkipElifText(s)
  ELSE IF s.kind = "stray" THEN StrayText(s)
  ELSE IF s.kind = "arg" THEN ArgText(s)
  ELSE IF s.kind = "unknown" THEN UnknownText(s)
  ELSE IF s.kind = "notag" THEN NoTagText(s)
  ELSE IF s.kind = "badguard" THEN BadGuardText(s)
  ELSE IF s.kind = "defseq" THEN
    IF s.n = 0 THEN DefSeqText(s)
    ELSE DirLine(W_if, <<"a">>) \o DefSeqText(s) \o DirWord(W_endif)
  ELSE <<>>

RunsOf(S, tags) == {[s |-> s, T |-> T] : s \in S, T \in SUBSET tags}

Runs ==
  RunsOf(TextScenarios \cup RawScenarios \cup DefineScenarios
         \cup Guard3Scenarios, TagNames)
  \cup RunsOf(IfElseScenarios \cup ChainScenarios \cup UnclosedScenarios
              \cup NestedScenarios \cup ParenScenarios,
              {<<"a">>, <<"b">>})
  \cup RunsOf(NotScenarios, {<<"a">>})
  \cup RunsOf(DefSeqScenarios, {<<"a">>, <<"c">>})
  \cup RunsOf(NoTagScenarios \cup UnknownScenarios \cup ArgScenarios
              \cup SkipElifScenarios \cup StrayScenarios,
              {<<"a">>})
  \cup RunsOf(BadGuardScenarios, {<<"a">>, <<"b">>})

-----------------------------------------------------------------------------
(* Actions                                                                 *)

Init ==
  /\ \E r \in Runs :
       /\ input = r.s
       /\ in = Render(r.s)
       /\ options = r.T
  /\ pos = 0
  /\ out = <<>>
  /\ ctx = [Tags |-> options, Depth |-> 0]
  /\ stack = <<>>
  /\ result = "running"
  /\ cerr = {}

\* consume / consume_next: a character that is not the marker
Literal ==
  /\ result = "running"
  /\ pos < Len(in)
  /\ in[pos + 1] # PP_START
  /\ pos' = pos + 1
  /\ out' = Emit(out, <<in[pos + 1]>>, Ignore)
  /\ UNCHANGED <<input, in, ctx, stack, result, cerr, options>>

\* case Operation::If: the entry of handle_if up to its while loop
DirIf ==
  /\ AtDirective
  /\ Op.op = "If"
  /\ LET hc == handle_condition(in, Op.pos, ctx.Tags)
     IN IF Ignore
        THEN /\ pos' = Op.pos
             /\ stack' = Append(stack, Frame(TRUE, FALSE))
             /\ cerr' = cerr
        ELSE /\ pos' = hc.pos
             /\ stack' = Append(stack, Frame(FALSE, hc.v))
             /\ cerr' = cerr \cup hc.d
  /\ ctx' = [ctx EXCEPT !.Depth = EnterDepth(@)]
  /\ UNCHANGED <<input, in, out, result, options>>

\* consume_next returns Elif or Else to the loop of handle_if
DirBranch ==
  /\ AtDirective
  /\ stack # <<>>
  /\ Op.op \in {"Elif", "Else"}
  /\ LET it == handle_if_iter(stack[Len(stack)], Op.op, in, Op.pos, ctx.Tags)
     IN /\ stack' = ReplaceTop(stack, it.frame)
        /\ pos' = it.pos
        /\ cerr' = cerr \cup it.d
  /\ UNCHANGED <<input, in, out, ctx, result, options>>

\* consume_next returns Endif: handle_if leaves its loop and returns
DirEndif ==
  /\ AtDirective
  /\ stack # <<>>
  /\ Op.op = "Endif"
  /\ pos' = Op.pos
  /\ stack' = Pop(stack)
  /\ ctx' = [ctx EXCEPT !.Depth = LeaveDepth(@)]
  /\ UNCHANGED <<input, in, out, result, cerr, options>>

\* case Operation::Define / Operation::Undef
DirDefine ==
  /\ AtDirective
  /\ Op.op \in {"Define", "Undef"}
  /\ LET tag == get_tag(in, Op.pos)
         msg == IF Op.op = "Define" THEN "DefineNoTag" ELSE "UndefNoTag"
     IN IF ~DefineActive(Ignore)
        THEN /\ pos' = Op.pos
             /\ UNCHANGED <<ctx, stack, result, cerr>>
        ELSE /\ pos' = tag.pos
             /\ IF tag.word # <<>>
                THEN /\ ctx' = [ctx EXCEPT !.Tags =
                                  ApplyDefine(@, Op.op, tag.word)]
                     /\ UNCHANGED <<stack, result, cerr>>
                ELSE /\ cerr' = cerr \cup {msg}
                     /\ IF stack = <<>>
                        \* consume returns false to parse
                        THEN /\ result' = "failure"
                             /\ UNCHANGED <<ctx, stack>>
                        \* consume_next returns false: handle_if leaves its
                        \* loop, restores Depth and returns true
                        ELSE /\ stack' = Pop(stack)
                             /\ ctx' = [ctx EXCEPT !.Depth = LeaveDepth(@)]
                             /\ UNCHANGED result
  /\ UNCHANGED <<input, in, out, options>>

\* default: an Unknown word, or Elif/Else/Endif in the top-level consume
DirUnknown ==
  /\ AtDirective
  /\ \/ Op.op = "Unknown"
     \/ stack = <<>> /\ Op.op \in {"Elif", "Else", "Endif"}
  /\ pos' = Op.pos
  /\ out' = Emit(out, <<PP_START>> \o Op.name, Ignore)
  /\ UNCHANGED <<input, in, ctx, stack, result, cerr, options>>

\* the top-level consume finds the stream exhausted and returns true
EndOfStream ==
  /\ result = "running"
  /\ pos >= Len(in)
  /\ stack = <<>>
  /\ result' = "success"
  /\ UNCHANGED <<input, in, pos, out, ctx, stack, cerr, options>>

\* consume_next finds the stream exhausted and returns true without
\* assigning `next`: handle_if runs its loop body on the old `current`
EndOfStreamInBlock ==
  /\ result = "running"
  /\ pos >= Len(in)
  /\ stack # <<>>
  /\ LET f == stack[Len(stack)]
         it == handle_if_iter(f, f.current, in, pos, ctx.Tags)
     IN /\ stack' = ReplaceTop(stack, it.frame)
        /\ pos' = it.pos
        /\ cerr' = cerr \cup it.d
  /\ UNCHANGED <<input, in, out, ctx, result, options>>

Next ==
  \/ Literal
  \/ DirIf
  \/ DirBranch
  \/ DirEndif
  \/ DirDefine
  \/ DirUnknown
  \/ EndOfStream
  \/ EndOfStreamInBlock

Spec == Init /\ [][Next]_vars

FairSpec == Init /\ [][Next]_vars /\ WF_vars(Next)

-----------------------------------------------------------------------------
(* Properties                                                              *)

NoMarker == \A i \in 1..Len(in) : in[i] # PP_START

\* C1: an input without the marker '#' is copied unchanged: at every step
\* the output is the consumed prefix of the input, the tag set stays the
\* initial one, the run never fails, and it ends in success with out = in
C1_PlainTextIdentity ==
  NoMarker =>
    /\ out = SubSeq(in, 1, pos)
    /\ ctx.Tags = options
    /\ result # "failure"
    /\ result = "success" => out = in

C1_Witness ==
  /\ NoMarker
  /\ result = "success"
  /\ Len(out) >= 2
  /\ options # {}

\* C2: every run terminates: the top-level consume eventually returns,
\* also when the stream ends inside an open `if` block
\* A run that terminates never reaches a state in which parse has not
\* returned and the only step left, an iteration of handle_if's loop on the
\* exhausted stream, leaves the whole state as it is.
C2_Terminates ==
  (result = "running" /\ pos >= Len(in) /\ stack # <<>>) =>
    LET f == stack[Len(stack)]
    IN handle_if_iter(f, f.current, in, pos, ctx.Tags).frame # f


IsPrefix(a, b) == Len(a) <= Len(b) /\ a = SubSeq(b, 1, Len(a))

IfElseExpected(s, T) ==
  s.text
  \o (IF <<s.g0>> \in T THEN s.b1 ELSE IF s.n = 1 THEN s.b2 ELSE <<>>)
  \o s.text

\* C3: for text `#if TAG` body1 [`#else` body2] `#endif` text the output is
\* text body1 text when TAG is in the tag set and text [body2] text when it
\* is not; at every step the output is a prefix of that
C3_IfElseSelects ==
  input.kind = "ifelse" =>
    /\ IsPrefix(out, IfElseExpected(input, options))
    /\ result # "failure"
    /\ result = "success" => out = IfElseExpected(input, options)

C3_Witness ==
  /\ input.kind = "ifelse"
  /\ result = "success"
  /\ input.n = 1
  /\ <<input.g0>> \notin options
  /\ input.b1 # <<>>
  /\ input.b2 # <<>>
  /\ input.text # <<>>
  /\ out = input.text \o input.b2 \o input.text

ChainExpected(s, T) ==
  <<"s">> \o SelectedBody(s.g0, s.br, T, Digits) \o <<"e">>

\* a chain of NestedShapes met inside the selected, active body of a chain
NestedActive(s, T) ==
  /\ s.kind = "nested"
  /\ s.n = Selected(s.g0, s.br, T)
  /\ s.m <= Len(NestedShapes)

NestedActiveExpected(s, T) ==
  <<"s">>
  \o SelectedBody(NestedShapes[s.m][1], NestedShapes[s.m][2], T, Letters)
  \o SelectedBody(s.g0, s.br, T, Digits) \o <<"e">>

C4_Expected(s, T) ==
  IF s.kind = "chain" THEN ChainExpected(s, T) ELSE NestedActiveExpected(s, T)

\* C4: of a chain `#if G0` / (`#elif G` | `#else`)* / `#endif` met while
\* output is active (at top level, or inside the selected body of another
\* chain) only the body of the first branch that holds is emitted (an
\* `else` holds when nothing before it did), in whatever order the elif and
\* else directives come; at every step the output is a prefix of that result
C4_OneBodyPerChain ==
  (input.kind = "chain" \/ NestedActive(input, options)) =>
    /\ IsPrefix(out, C4_Expected(input, options))
    /\ result # "failure"
    /\ result = "success" => out = C4_Expected(input, options)

C4_Witness ==
  /\ input.kind = "chain"
  /\ result = "success"
  /\ Len(input.br) = 2
  /\ input.br[1] = "else"
  /\ input.br[2] # "else"
  /\ <<input.br[2]>> \in options
  /\ <<input.g0>> \notin options
  /\ out = <<"s", "1", "e">>

DefineExpected(s, T) ==
  IF Selected(s.g0, s.br, T) < 0 THEN T
  ELSE IF s.n = 0 THEN T \cup {<<"c">>} ELSE T \ {<<"c">>}

\* C5: the tag set changes only in a step that scans a `define` or `undef`
\* while the ignore flag of the running scan is false; in a chain whose
\* every body holds a `define c` (or `undef c`) the final tag set is the
\* initial one changed by the selected body alone
C5_TagsChangeOnlyWhenActive ==
  /\ [][ctx'.Tags # ctx.Tags =>
          AtDirective /\ Op.op \in {"Define", "Undef"} /\ ~Ignore]_vars
  /\ []((input.kind = "define" /\ result = "success") =>
          ctx.Tags = DefineExpected(input, options))

C5_Witness ==
  /\ input.kind = "define"
  /\ input.n = 0
  /\ Len(input.br) = 2
  /\ Selected(input.g0, input.br, options) = 1
  /\ <<"c">> \notin options
  /\ result = "success"
  /\ ctx.Tags = options \cup {<<"c">>}

NestedSuppressed(s, T) ==
  s.kind = "nested" /\ s.n <= Len(s.br) /\ s.n # Selected(s.g0, s.br, T)

\* C6: a block nested in a suppressed body of a chain emits nothing, and the
\* chain emits the body it selects without the nested block
C6_NestedSuppressed ==
  NestedSuppressed(input, options) =>
    /\ IsPrefix(out, ChainExpected(input, options))
    /\ result # "failure"
    /\ result = "success" => out = ChainExpected(input, options)

C6_Witness ==
  /\ NestedSuppressed(input, options)
  /\ input.m = 3
  /\ input.n = 0
  /\ Len(input.br) = 2
  /\ options = {<<"b">>}
  /\ Selected(input.g0, input.br, options) = 2
  /\ result = "success"

GuardEvaluated ==
  Len(stack) = 1 /\ stack[1].current = "If" /\ pos < Len(in)

Apply(o, x, y) ==
  IF o = "&&" THEN x /\ y ELSE IF o = "||" THEN x \/ y ELSE x # y

Eval3(s, T) ==
  Apply(s.br[1], <<"a">> \in T, Apply(s.br[2], <<"b">> \in T, <<"c">> \in T))

\* C7: the guard `a o1 b o2 c` has the value a o1 (b o2 c): the condition
\* of the block is that value and the body is emitted exactly when it holds
C7_RightFold ==
  input.kind = "guard3" =>
    /\ GuardEvaluated => stack[1].condition = Eval3(input, options)
    /\ result = "success" =>
         out = (IF Eval3(input, options) THEN <<"Y">> ELSE <<>>)

C7_Witness ==
  /\ input.kind = "guard3"
  /\ input.br = <<"&&", "||">>
  /\ options = {<<"c">>}
  /\ GuardEvaluated
  /\ stack[1].condition = FALSE

IsC8Case ==
  /\ input.kind = "guard3"
  /\ input.br = <<"||", "&&">>
  /\ options = {<<"b">>}
  /\ GuardEvaluated

\* C8 as stated: `a || b && c` with only b present evaluates true
C8_Original == IsC8Case => stack[1].condition = TRUE

\* C8 as amended: `a || b && c` with a absent, b present and c absent
\* evaluates false, the value of a || (b && c)
C8_Amended == IsC8Case => stack[1].condition = FALSE

C8_Witness == IsC8Case /\ out = <<>>

\* C9: a guard of k '!' before the tag a is true iff a is present and k is
\* even, or a is absent and k is odd
C9_Negation ==
  input.kind = "nots" =>
    /\ GuardEvaluated =>
         stack[1].condition =
           (IF input.n % 2 = 0 THEN <<"a">> \in options
            ELSE <<"a">> \notin options)
    /\ cerr = {}

C9_Witness ==
  /\ input.kind = "nots"
  /\ input.n = 2
  /\ <<"a">> \in options
  /\ GuardEvaluated
  /\ stack[1].condition = TRUE

ParenExpected(n, T) ==
  IF n = 1 THEN <<"a">> \in T
  ELSE IF n = 2 THEN <<"a">> \notin T
  ELSE IF n = 3 THEN <<"a">> \in T /\ <<"b">> \in T
  ELSE IF n = 4 THEN <<"a">> \in T \/ <<"b">> \in T
  ELSE <<"a">> \in T

\* C10: a balanced parenthesized guard ( e ) is accepted without a parse
\* error and has the value of e
C10_BalancedParens ==
  (input.kind = "paren" /\ input.n <= 5 /\ GuardEvaluated) =>
    /\ stack[1].condition = ParenExpected(input.n, options)
    /\ "Expected" \notin cerr

\* whether c is defined after the first i directives of ops, starting
\* from the tag set T: decided by the most recent directive, or by T
DefinedAfter(ops, i, T) ==
  IF i = 0 THEN <<"c">> \in T ELSE ops[i] = "D"

RECURSIVE DefSeqOutput(_, _, _)
DefSeqOutput(ops, i, T) ==
  IF i > Len(ops) THEN <<>>
  ELSE (IF DefinedAfter(ops, i, T) THEN <<Digits[i + 1]>> ELSE <<>>)
       \o DefSeqOutput(ops, i + 1, T)

DefSeqActive(s, T) == s.kind = "defseq" /\ (s.n = 0 \/ <<"a">> \in T)

\* C11: in an active scope the guard `c` is true iff the most recent
\* define/undef of c was a define, or there was none and c is predefined:
\* the block `#if c` after the i-th directive emits its body exactly then,
\* and the final tag set differs from the initial one at most in c
C11_DefineThenGuard ==
  DefSeqActive(input, options) =>
    /\ IsPrefix(out, DefSeqOutput(input.br, 0, options))
    /\ result # "failure"
    /\ result = "success" =>
         /\ out = DefSeqOutput(input.br, 0, options)
         /\ ctx.Tags = (options \ {<<"c">>})
              \cup (IF DefinedAfter(input.br, Len(input.br), options)
                    THEN {<<"c">>} ELSE {})

C11_Witness ==
  /\ DefSeqActive(input, options)
  /\ input.n = 1
  /\ input.br = <<"D", "D", "U">>
  /\ <<"c">> \notin options
  /\ result = "success"
  /\ out = <<"1", "2">>

NoTagActive(s, T) == s.kind = "notag" /\ (s.n = 0 \/ <<"a">> \in T)

\* C12: an active define or undef without a tag aborts the run: the run
\* does not end in success and nothing is written after the directive,
\* at top level and inside active `if` bodies
C12_TaglessIsFatal ==
  NoTagActive(input, options) =>
    /\ IsPrefix(out, <<"s">> \o Repeat(input.n, <<"0">>))
    /\ result # "success"

BadGuardEvaluated(s, T) ==
  s.kind = "badguard" /\ (s.m = 0 \/ <<"b">> \notin T)

\* C13: a malformed guard on an evaluated `if` or `elif` aborts the run:
\* the run does not end in success, no body of the chain is emitted and
\* nothing is written after the guard
C13_MalformedGuardIsFatal ==
  BadGuardEvaluated(input, options) =>
    /\ IsPrefix(out, <<"s">>)
    /\ result # "success"

\* C14 as stated: only the whitespace between '#' and the word is lost;
\* the character that ends the word is in the output
C14_Original ==
  (input.kind = "unknown" /\ result = "success") =>
    out = input.b1 \o <<PP_START>> \o input.text \o Terminator(input.m)
          \o input.b2

UnknownExpected(s) ==
  s.b1 \o <<PP_START>> \o s.text
  \o (IF Len(s.text) < MAX_BUF_SIZE THEN <<>> ELSE Terminator(s.m))
  \o s.b2

\* C14 as amended: the output is the input without the whitespace between
\* '#' and the word and, for a word of fewer than 16 characters, without
\* the one whitespace character that ends the word; the run succeeds
C14_Amended ==
  input.kind = "unknown" =>
    /\ IsPrefix(out, UnknownExpected(input))
    /\ ctx.Tags = options
    /\ result # "failure"
    /\ result = "success" => out = UnknownExpected(input)

C14_Witness ==
  /\ input.kind = "unknown"
  /\ result = "success"
  /\ input.n = 2
  /\ input.m = 2
  /\ Len(input.text) = 3
  /\ input.b1 = <<"x">>
  /\ input.b2 = <<" ", "y">>
  /\ out = <<"x", "#", "a", "b", "c", " ", "y">>

LongWord(s) == s.kind = "unknown" /\ Len(s.text) > MAX_BUF_SIZE

TailChars(s) == {s.text[j] : j \in (MAX_BUF_SIZE + 1)..Len(s.text)}

\* C18 as stated: of a directive word longer than 16 characters the
\* scanner returns the first 16, takes the whole word from the stream, and
\* the characters beyond the 16th never reach the output
C18_Original ==
  LongWord(input) =>
    /\ AtDirective =>
         /\ Op.name = SubSeq(input.text, 1, MAX_BUF_SIZE)
         /\ Op.pos >= pos + 1 + input.n + Len(input.text)
    /\ \A i \in 1..Len(out) : out[i] \notin TailChars(input)

\* C18 as amended: the scanner takes only the first 16 characters of the
\* word from the stream and returns them as an Unknown word; the rest of
\* the word stays on the stream and is copied to the output as text
C18_Amended ==
  LongWord(input) =>
    /\ AtDirective =>
         /\ Op.op = "Unknown"
         /\ Op.name = SubSeq(input.text, 1, MAX_BUF_SIZE)
         /\ Op.pos = pos + 1 + input.n + MAX_BUF_SIZE
    /\ result = "success" =>
         out = input.b1 \o <<PP_START>> \o input.text
               \o Terminator(input.m) \o input.b2

C18_Witness ==
  /\ LongWord(input)
  /\ Len(input.text) = MAX_BUF_SIZE + 3
  /\ input.n = 1
  /\ input.m = 1
  /\ pos >= 1
  /\ in[pos] = input.text[MAX_BUF_SIZE]
  /\ out = input.b1 \o <<PP_START>> \o SubSeq(input.text, 1, MAX_BUF_SIZE)
  /\ pos + 1 <= Len(in)
  /\ in[pos + 1] = input.text[MAX_BUF_SIZE + 1]

\* whether a[i..] can be found, in order, among b[j..]
RECURSIVE IsSubseqFrom(_, _, _, _)
IsSubseqFrom(a, i, b, j) ==
  IF i > Len(a) THEN TRUE
  ELSE IF j > Len(b) THEN FALSE
  ELSE IF a[i] = b[j] THEN IsSubseqFrom(a, i + 1, b, j + 1)
  ELSE IsSubseqFrom(a, i, b, j + 1)

\* C15: at every step the output is a subsequence of the input consumed
\* so far; a step only appends to the output, and appends only when the
\* ignore flag of the running scan is false
C15_OutputAppendOnly ==
  /\ [](IsSubseqFrom(out, 1, SubSeq(in, 1, pos), 1))
  /\ [][/\ IsPrefix(out, out')
        /\ out' # out => ~Ignore]_vars

C15_Witness ==
  /\ input.kind = "nested"
  /\ Len(stack) = 2
  /\ Ignore
  /\ out # <<>>
  /\ Len(out) + 8 < pos
  /\ result = "running"

ArgSuppressed(s, T) == s.kind = "arg" /\ <<"a">> \notin T

\* C16: the argument of an `if`, `define` or `undef` met in a suppressed
\* body is taken from the stream with its directive and not scanned again:
\* a `#endif` inside it closes nothing, so the X after it stays suppressed,
\* the block ends at its own `#endif`, and only the text around the block
\* is written
C16_SuppressedArgumentConsumed ==
  ArgSuppressed(input, options) =>
    /\ IsPrefix(out, <<"s", "e">>)
    /\ result = "success" => (out = <<"s", "e">> /\ ctx.Tags = options)

\* an elif is being scanned in a block one of whose branches was selected
AtSkippedElif ==
  /\ AtDirective
  /\ stack # <<>>
  /\ Op.op = "Elif"
  /\ stack[Len(stack)].once_true \/ stack[Len(stack)].condition

SkipElifSelected(s, T) == s.kind = "skipelif" /\ <<"a">> \in T

\* C17: the step that meets an elif after a selected branch reads the
\* keyword only: the guard stays on the stream, nothing is reported or
\* written, the tags are unchanged and the new condition is false.  The
\* guard is then scanned as suppressed body text: a malformed guard gives
\* no diagnostic and no output, and a `#endif` inside the guard closes the
\* block (the 1 after it is then written as top-level text)
C17_SkippedElifGuard ==
  /\ [][AtSkippedElif =>
          /\ pos' = Op.pos
          /\ cerr' = cerr
          /\ out' = out
          /\ ctx' = ctx
          /\ Len(stack') = Len(stack)
          /\ stack'[Len(stack)].condition = FALSE
          /\ BodyIgnore(stack'[Len(stack)])]_vars
  /\ []((SkipElifSelected(input, options) /\ result = "success") =>
          /\ cerr = {}
          /\ out = IF input.n = Len(SkipGuards)
                   THEN <<"s", "0", "1", PP_START>> \o W_endif \o <<"e">>
                   ELSE <<"s", "0", "e">>)

C17_Witness ==
  /\ SkipElifSelected(input, options)
  /\ input.n = Len(SkipGuards)
  /\ result = "success"
  /\ out = <<"s", "0", "1", PP_START>> \o W_endif \o <<"e">>
  /\ cerr = {}

\* C19: the depth counter equals the number of open blocks and is never
\* negative; a step changes it by exactly the number of blocks entered or
\* left, which is at most one; it is zero when the top-level run has
\* returned
C19_DepthCountsOpenBlocks ==
  /\ [](/\ ctx.Depth = Len(stack)
        /\ ctx.Depth >= 0
        /\ (result # "running" => ctx.Depth = 0))
  /\ [][/\ ctx'.Depth - ctx.Depth = Len(stack') - Len(stack)
        /\ ctx'.Depth - ctx.Depth \in {-1, 0, 1}]_vars

\* a block nested in another one was left by a define or undef without a
\* tag, and the counter is back at the value of the enclosing block
C19_Witness ==
  /\ input.kind = "notag"
  /\ input.n = 2
  /\ cerr \cap {"DefineNoTag", "UndefNoTag"} # {}
  /\ result = "running"
  /\ Len(stack) = 1
  /\ ctx.Depth = 1

\* an elif, else or endif is being scanned with no block open
AtStrayBranch ==
  /\ AtDirective
  /\ stack = <<>>
  /\ Op.op \in {"Elif", "Else", "Endif"}

\* C20: the step that meets an elif, else or endif at top level appends
\* `#` and the keyword to the output and changes neither the tags, the
\* depth, the diagnostics nor the result; a run over a stray keyword ends
\* in success with the text before it, `#`, the keyword and the text after
\* it as output, and with the tags it started with
C20_StrayBranchEchoed ==
  /\ [][AtStrayBranch =>
          /\ out' = out \o <<PP_START>> \o Op.name
          /\ Op.name \in {W_elif, W_else, W_endif}
          /\ pos' = Op.pos
          /\ ctx' = ctx
          /\ stack' = <<>>
          /\ cerr' = cerr
          /\ result' = "running"]_vars
  /\ []((input.kind = "stray" /\ result # "running") =>
          /\ result = "success"
          /\ out = input.b1 \o <<PP_START>> \o input.text \o input.b2
          /\ ctx = [Tags |-> options, Depth |-> 0]
          /\ cerr = {})

C20_Witness ==
  /\ input.kind = "stray"
  /\ input.text = W_endif
  /\ input.n = 1
  /\ input.b1 = <<"x">>
  /\ input.b2 = <<"y">>
  /\ result = "success"
  /\ out = <<"x", PP_START>> \o W_endif \o <<"y">>

=============================================================================
